---- MODULE Spec2Model ----
(***************************************************************************)
(* Model of packages/optimizer/lib/fetchRuntimeParameters.js: the          *)
(* resolution of validatorRules, ampRuntimeVersion and ampRuntimeStyles    *)
(* over a shared cache, with a background refresh of stale versions.       *)
(*                                                                         *)
(* JavaScript values are records tagged by their type, so that undefined,  *)
(* null, the empty string and objects stay distinct and truthiness is      *)
(* computed as the language computes it.  Every await is a step boundary:  *)
(* a caller sits at a pc between the call of a capability and its result.  *)
(***************************************************************************)
EXTENDS Integers, Sequences, FiniteSets, TLC

\* ------------------------------------------------------------------------
\* Bounds of the model
\* ------------------------------------------------------------------------
MaxCalls == 2
MaxClock == 1200
TickStep == 600

Procs == {"c1"}

\* ------------------------------------------------------------------------
\* JavaScript values
\* ------------------------------------------------------------------------
Undefined == [t |-> "undefined"]
Null == [t |-> "null"]
Str(s) == [t |-> "string", s |-> s]
RuleSet(raw) == [t |-> "ruleset", raw |-> raw]
Raw(s) == [t |-> "raw", s |-> s]
ConfigObject == [t |-> "config"]

\* !v is false exactly for the truthy values
Truthy(v) == v \notin {Undefined, Null, Str("")}

\* a || b
OrElse(a, b) == IF Truthy(a) THEN a ELSE b

\* string conversion as done by the + operator
ToStr(v) == IF v.t = "string" THEN v.s ELSE v.t

BoolStr(b) == IF b THEN "true" ELSE "false"

\* ------------------------------------------------------------------------
\* Program constants
\* ------------------------------------------------------------------------
KEY_VALIDATOR_RULES == "validator-rules"
AMP_RUNTIME_MAX_AGE == 10 * 60
AMP_CACHE_HOST == "https://cdn.ampproject.org"
AMP_RUNTIME_CSS_PATH == "/v0.css"

appendRuntimeVersion(prefix, version) == prefix \o "/rtv/" \o version

\* ------------------------------------------------------------------------
\* Input domains
\* ------------------------------------------------------------------------
ExamplePrefix == "https://example.com"
RelativePrefix == "/amp"
AbsoluteUrls == {AMP_CACHE_HOST, ExamplePrefix}

Prefixes == {Undefined, Str(ExamplePrefix), Str(RelativePrefix)}
\* version strings are non-empty and are not absolute URLs
Versions == {Str("v1"), Str("v2")}
\* the verbose and rtv flags are left to their default by both arguments
DefaultFlags == {FALSE}
CustomVersions == {Undefined, Str("v1")}
CustomStyles == {Undefined, Str("custom-css")}
CustomRules == {Undefined, RuleSet(Raw("custom"))}
ConfigRules == {Undefined, RuleSet(Raw("config"))}
FetchedRaws == {Raw("cdn")}
Bodies == {"", "css"}

\* The inputs of one call: either the rules come from config and the other
\* inputs vary (the lts flag with the default prefix), or everything else is
\* left to be fetched and the two rules inputs vary.
InputCase(cr, gr, px, cv, cs, clts, glts) ==
  \/ cr = Undefined /\ gr # Undefined /\ (clts \/ glts => px = Undefined)
  \/ px = Undefined /\ cv = Undefined /\ cs = Undefined /\ ~clts /\ ~glts

Failure == [t |-> "error"]
VersionOutcomes == Versions \cup {Failure}
NotOk == [t |-> "response", ok |-> FALSE]
Ok(text) == [t |-> "response", ok |-> TRUE, text |-> text]
DownloadOutcomes == {Ok(b) : b \in Bodies} \cup {NotOk, Failure}

\* ------------------------------------------------------------------------
\* State
\* ------------------------------------------------------------------------
VARIABLES
  cache,      \* the shared key-value cache: a function on the stored keys
  clock,      \* Date.now(), in seconds
  calls,      \* number of resolve calls started so far
  bg,         \* background refreshes in flight
  firstAt,    \* per version key, when the first call for it returned
  unhandled,  \* calls whose background refresh rejected with no handler
  written,    \* per version key: whom the version source was asked for, and what refreshes stored
  pc,         \* position of each caller
  custom,     \* customRuntimeParameters of the running call
  config,     \* config of the running call
  rp,         \* runtimeParameters of the running call
  local,      \* locals of the resolver the caller is in
  log,        \* messages given to config.log during the running call
  outcome,    \* how the running call ended
  obs         \* history of the running call

vars == <<cache, clock, calls, bg, firstAt, unhandled, written, pc, custom, config, rp, local, log, outcome, obs>>

\* ------------------------------------------------------------------------
\* Cache (FileSystemCache) and MaxAge
\* ------------------------------------------------------------------------
CacheGet(c, key) == IF key \in DOMAIN c THEN c[key] ELSE Undefined

CacheSet(c, key, value) == [k \in DOMAIN c \cup {key} |-> IF k = key THEN value ELSE c[k]]

MaxAgeCreate(now, maxAge) == [timestamp |-> now, value |-> maxAge]

MaxAgeToJson(m) == [timestamp |-> m.timestamp, value |-> m.value]

MaxAgeFromJson(j) == [timestamp |-> j.timestamp, value |-> j.value]

IsExpired(m, now) == m.timestamp + m.value < now

\* ------------------------------------------------------------------------
\* Pure helpers of the module
\* ------------------------------------------------------------------------
_isAbsoluteUrl(url) == url.t = "string" /\ url.s \in AbsoluteUrls

VersionKey(ampUrlPrefix, lts) == ToStr(ampUrlPrefix) \o "-" \o BoolStr(lts)

RuntimeCssUrl(ampUrlPrefix, ampRuntimeVersion) ==
  appendRuntimeVersion(ToStr(OrElse(ampUrlPrefix, Str(AMP_CACHE_HOST))), ToStr(ampRuntimeVersion))
    \o AMP_RUNTIME_CSS_PATH

\* config.log, config.fetch and config.runtimeVersion exist on the config
\* object only; reading a member of them on any other value throws
HasCapabilities(cfg) == cfg = ConfigObject

\* ------------------------------------------------------------------------
\* Initial state
\* ------------------------------------------------------------------------
NoLocal ==
  [rawRules |-> Undefined, versionKey |-> "", config |-> Undefined,
   ampUrlPrefix |-> Undefined, ampRuntimeVersion |-> Undefined, runtimeCssUrl |-> ""]

NoCustom ==
  [validatorRules |-> Undefined, ampUrlPrefix |-> Undefined,
   ampRuntimeVersion |-> Undefined, ampRuntimeStyles |-> Undefined]

NoParams ==
  [validatorRules |-> Undefined, ampUrlPrefix |-> Undefined,
   ampRuntimeVersion |-> Undefined, ampRuntimeStyles |-> Undefined,
   verbose |-> FALSE, lts |-> FALSE, rtv |-> FALSE]

Never == 0 - 1

NoConfig == [validatorRules |-> Undefined]

NoObs ==
  [call |-> 0, attempted |-> {}, failed |-> {},
   verPath |-> "none", verCalls |-> 0, verRead |-> Undefined, verAt |-> 0,
   verFirst |-> Never, verFetched |-> Undefined,
   requested |-> <<>>, retries |-> 0, firstDl |-> "none", retryVer |-> Undefined]

Init ==
  /\ cache = <<>>
  /\ clock = 0
  /\ calls = 0
  /\ bg = {}
  /\ firstAt = <<>>
  /\ unhandled = {}
  /\ written = <<>>
  /\ pc = [p \in Procs |-> "idle"]
  /\ custom = [p \in Procs |-> NoCustom]
  /\ config = [p \in Procs |-> NoConfig]
  /\ rp = [p \in Procs |-> NoParams]
  /\ local = [p \in Procs |-> NoLocal]
  /\ log = [p \in Procs |-> {}]
  /\ outcome = [p \in Procs |-> "none"]
  /\ obs = [p \in Procs |-> NoObs]

\* ------------------------------------------------------------------------
\* Time
\* ------------------------------------------------------------------------
Tick ==
  /\ clock + TickStep <= MaxClock
  /\ clock' = clock + TickStep
  /\ UNCHANGED <<cache, calls, bg, firstAt, unhandled, written, pc, custom, config, rp, local, log, outcome, obs>>

\* ------------------------------------------------------------------------
\* fetchRuntimeParameters, lines 44-50: the copy of the custom parameters
\* ------------------------------------------------------------------------
Call(p, cr, gr, px, cv, cs, clts, glts, cverbose, gverbose, crtv, grtv) ==
  /\ pc[p] = "idle"
  /\ custom' = [custom EXCEPT ![p] =
        [validatorRules |-> cr, ampUrlPrefix |-> px, ampRuntimeVersion |-> cv,
         ampRuntimeStyles |-> cs]]
  /\ config' = [config EXCEPT ![p] = [validatorRules |-> gr]]
  /\ rp' = [rp EXCEPT ![p] =
        [validatorRules |-> cr, ampUrlPrefix |-> px, ampRuntimeVersion |-> cv,
         ampRuntimeStyles |-> cs,
         verbose |-> (cverbose \/ gverbose \/ FALSE),
         lts |-> (clts \/ glts \/ FALSE),
         rtv |-> (crtv \/ grtv \/ FALSE)]]
  /\ calls' = calls + 1
  /\ pc' = [pc EXCEPT ![p] = "rules"]
  /\ local' = [local EXCEPT ![p] = NoLocal]
  /\ log' = [log EXCEPT ![p] = {}]
  /\ outcome' = [outcome EXCEPT ![p] = "none"]
  /\ obs' = [obs EXCEPT ![p] = [NoObs EXCEPT !.call = calls + 1]]
  /\ UNCHANGED <<cache, clock, bg, firstAt, unhandled, written>>

\* a call made by the one caller, with any of the inputs
Resolve(p) ==
  /\ calls < MaxCalls
  /\ \E cr \in CustomRules, gr \in ConfigRules, px \in Prefixes, cv \in CustomVersions,
        cs \in CustomStyles, clts \in BOOLEAN, glts \in BOOLEAN,
        cverbose \in DefaultFlags, gverbose \in DefaultFlags,
        crtv \in DefaultFlags, grtv \in DefaultFlags :
       /\ InputCase(cr, gr, px, cv, cs, clts, glts)
       /\ Call(p, cr, gr, px, cv, cs, clts, glts, cverbose, gverbose, crtv, grtv)

\* ------------------------------------------------------------------------
\* The three catch blocks of fetchRuntimeParameters.  o is the history of
\* the call up to the failure.
\* ------------------------------------------------------------------------
CatchRulesError(p, o) ==
  /\ log' = [log EXCEPT ![p] = @ \cup {"Could not fetch validator rules"}]
  /\ pc' = [pc EXCEPT ![p] = "version"]
  /\ outcome' = outcome
  /\ local' = [local EXCEPT ![p] = NoLocal]
  /\ obs' = [obs EXCEPT ![p] = [o EXCEPT !.failed = @ \cup {"rules"}]]

CatchVersionError(p, o) ==
  /\ log' = [log EXCEPT ![p] = @ \cup {"Could not fetch latest AMP runtime version"}]
  /\ pc' = [pc EXCEPT ![p] = "styles"]
  /\ outcome' = outcome
  /\ local' = [local EXCEPT ![p] = NoLocal]
  /\ obs' = [obs EXCEPT ![p] = [o EXCEPT !.failed = @ \cup {"version"}]]

\* the styles resolution without its try block
RethrowStylesError(p, l, o) ==
  /\ log' = [log EXCEPT ![p] = l]
  /\ pc' = [pc EXCEPT ![p] = "done"]
  /\ outcome' = [outcome EXCEPT ![p] = "threw"]
  /\ local' = [local EXCEPT ![p] = NoLocal]
  /\ obs' = [obs EXCEPT ![p] = [o EXCEPT !.failed = @ \cup {"styles"}]]

\* l is the log up to the failure; line 73 follows the catch block
CatchStylesError(p, l, o) ==
  /\ log' = [log EXCEPT ![p] = l \cup {"Could not fetch AMP runtime CSS"}]
  /\ pc' = [pc EXCEPT ![p] = "done"]
  /\ outcome' = [outcome EXCEPT ![p] = "returned"]
  /\ local' = [local EXCEPT ![p] = NoLocal]
  /\ obs' = [obs EXCEPT ![p] = [o EXCEPT !.failed = @ \cup {"styles"}]]

\* ------------------------------------------------------------------------
\* validatorRules: line 53 and fetchValidatorRules_
\* ------------------------------------------------------------------------
RulesStage(p) ==
  /\ pc[p] = "rules"
  /\ IF Truthy(config[p].validatorRules)
     THEN /\ rp' = [rp EXCEPT ![p].validatorRules = config[p].validatorRules]
          /\ pc' = [pc EXCEPT ![p] = "version"]
          /\ obs' = obs
     ELSE /\ rp' = rp
          /\ pc' = [pc EXCEPT ![p] = "rules_get"]
          /\ obs' = [obs EXCEPT ![p].attempted = @ \cup {"rules"}]
  /\ UNCHANGED <<cache, clock, calls, bg, firstAt, unhandled, written, custom, config, local, log, outcome>>

\* the stored raw rules are not looked at
RulesCacheGetIgnoresCache(p) ==
  /\ pc[p] = "rules_get"
  /\ local' = [local EXCEPT ![p].rawRules = Undefined]
  /\ pc' = [pc EXCEPT ![p] = "rules_fetch"]
  /\ UNCHANGED <<cache, clock, calls, bg, firstAt, unhandled, written, custom, config, rp, log, outcome, obs>>

\* await cache.get('validator-rules'), then the call of the rule provider
RulesCacheGet(p) ==
  /\ pc[p] = "rules_get"
  /\ local' = [local EXCEPT ![p].rawRules = CacheGet(cache, "validator-rules")]
  /\ pc' = [pc EXCEPT ![p] = "rules_fetch"]
  /\ UNCHANGED <<cache, clock, calls, bg, firstAt, unhandled, written, custom, config, rp, log, outcome, obs>>

\* what validatorRulesProvider.fetch can answer to the call made
RuleOutcomes(rawRules) ==
  IF Truthy(rawRules)
  THEN {RuleSet(rawRules), Failure}
  ELSE {RuleSet(r) : r \in FetchedRaws} \cup {Failure}

\* a provider failure that is swallowed inside fetchValidatorRules_
RulesFetchedSoftened(p) ==
  /\ pc[p] = "rules_fetch"
  /\ \E out \in RuleOutcomes(local[p].rawRules) :
       /\ cache' = IF out # Failure /\ ~Truthy(local[p].rawRules)
                   THEN CacheSet(cache, KEY_VALIDATOR_RULES, out.raw)
                   ELSE cache
       /\ rp' = [rp EXCEPT ![p].validatorRules = IF out = Failure THEN Undefined ELSE out]
       /\ pc' = [pc EXCEPT ![p] = "version"]
       /\ local' = [local EXCEPT ![p] = NoLocal]
       /\ UNCHANGED <<log, outcome, obs>>
  /\ UNCHANGED <<clock, calls, bg, firstAt, unhandled, written, custom, config>>

RulesFetched(p) ==
  /\ pc[p] = "rules_fetch"
  /\ \E out \in RuleOutcomes(local[p].rawRules) :
       IF out = Failure
       THEN /\ CatchRulesError(p, obs[p])
            /\ UNCHANGED <<cache, rp>>
       ELSE /\ cache' = IF ~Truthy(local[p].rawRules)
                        THEN CacheSet(cache, KEY_VALIDATOR_RULES, out.raw)
                        ELSE cache
            /\ rp' = [rp EXCEPT ![p].validatorRules = out]
            /\ pc' = [pc EXCEPT ![p] = "version"]
            /\ local' = [local EXCEPT ![p] = NoLocal]
            /\ UNCHANGED <<log, outcome, obs>>
  /\ UNCHANGED <<clock, calls, bg, firstAt, unhandled, written, custom, config>>

\* ------------------------------------------------------------------------
\* ampRuntimeVersion: lines 57-61, fetchAmpRuntimeVersion_ and
\* fetchLatestRuntimeData_
\* ------------------------------------------------------------------------
VersionStage(p) ==
  /\ pc[p] = "version"
  /\ IF Truthy(rp[p].ampRuntimeVersion)
     THEN /\ pc' = [pc EXCEPT ![p] = "styles"]
          /\ UNCHANGED <<local, obs>>
     ELSE /\ local' = [local EXCEPT ![p].versionKey = VersionKey(rp[p].ampUrlPrefix, rp[p].lts)]
          /\ pc' = [pc EXCEPT ![p] = "ver_get"]
          /\ obs' = [obs EXCEPT ![p].attempted = @ \cup {"version"}]
  /\ UNCHANGED <<cache, clock, calls, bg, firstAt, unhandled, written, custom, config, rp, log, outcome>>

\* a record that is stale as soon as it is written
RuntimeDataNoMaxAge(version, now) ==
  [version |-> version, maxAge |-> MaxAgeToJson(MaxAgeCreate(now, 0))]

\* the record fetchLatestRuntimeData_ builds from the answer of the source
RuntimeData(version, now) ==
  [version |-> version, maxAge |-> MaxAgeToJson(MaxAgeCreate(now, AMP_RUNTIME_MAX_AGE))]

\* cache.set(versionKey, ampRuntimeData) of line 145 is remembered with the
\* arguments of the currentVersion call of line 141 that gave the version,
\* and with the records that background refreshes stored
Wrote(key, ampUrlPrefix, lts, data, refresh) ==
  [k \in DOMAIN written \cup {key} |->
     IF k = key
     THEN [ampUrlPrefix |-> ampUrlPrefix, lts |-> lts,
           refreshed |-> (IF key \in DOMAIN written THEN written[key].refreshed ELSE {})
                           \cup (IF refresh THEN {data} ELSE {})]
     ELSE written[k]]

\* the first return of a call for a key is remembered
Returned(key) ==
  IF key \in DOMAIN firstAt
  THEN firstAt
  ELSE [k \in DOMAIN firstAt \cup {key} |-> IF k = key THEN clock ELSE firstAt[k]]

\* line 128: nothing cached, the fetch is awaited
VersionMiss(p, o) ==
  /\ pc' = [pc EXCEPT ![p] = "ver_fetch"]
  /\ obs' = [obs EXCEPT ![p] = [o EXCEPT !.verPath = "miss", !.verCalls = @ + 1]]
  /\ UNCHANGED <<bg, firstAt, rp, local>>

\* a stale hit that awaits the refresh it starts
VersionStaleAwaited(p, data, o) ==
  /\ pc' = [pc EXCEPT ![p] = "ver_fetch"]
  /\ obs' = [obs EXCEPT ![p] = [o EXCEPT !.verPath = "stale", !.verCalls = @ + 1]]
  /\ UNCHANGED <<bg, firstAt, rp, local>>

\* a stale hit that returns the cached version and starts no refresh
VersionStaleNoRefresh(p, data, o) ==
  /\ firstAt' = Returned(local[p].versionKey)
  /\ rp' = [rp EXCEPT ![p].ampRuntimeVersion = data.version]
  /\ pc' = [pc EXCEPT ![p] = "styles"]
  /\ local' = [local EXCEPT ![p] = NoLocal]
  /\ obs' = [obs EXCEPT ![p] = [o EXCEPT !.verPath = "stale"]]
  /\ UNCHANGED bg

\* line 131: the fetch is started and not awaited, line 133 returns
VersionStale(p, data, o) ==
  /\ bg' = bg \cup {[key |-> local[p].versionKey, ampUrlPrefix |-> rp[p].ampUrlPrefix,
                   lts |-> rp[p].lts, call |-> o.call]}
  /\ firstAt' = Returned(local[p].versionKey)
  /\ rp' = [rp EXCEPT ![p].ampRuntimeVersion = data.version]
  /\ pc' = [pc EXCEPT ![p] = "styles"]
  /\ local' = [local EXCEPT ![p] = NoLocal]
  /\ obs' = [obs EXCEPT ![p] = [o EXCEPT !.verPath = "stale", !.verCalls = @ + 1]]

\* a fresh hit that refreshes all the same
VersionFreshRefetch(p, data, o) ==
  /\ bg' = bg \cup {[key |-> local[p].versionKey, ampUrlPrefix |-> rp[p].ampUrlPrefix,
                   lts |-> rp[p].lts, call |-> o.call]}
  /\ firstAt' = Returned(local[p].versionKey)
  /\ rp' = [rp EXCEPT ![p].ampRuntimeVersion = data.version]
  /\ pc' = [pc EXCEPT ![p] = "styles"]
  /\ local' = [local EXCEPT ![p] = NoLocal]
  /\ obs' = [obs EXCEPT ![p] = [o EXCEPT !.verPath = "fresh", !.verCalls = @ + 1]]

\* line 133 alone
VersionFresh(p, data, o) ==
  /\ firstAt' = Returned(local[p].versionKey)
  /\ rp' = [rp EXCEPT ![p].ampRuntimeVersion = data.version]
  /\ pc' = [pc EXCEPT ![p] = "styles"]
  /\ local' = [local EXCEPT ![p] = NoLocal]
  /\ obs' = [obs EXCEPT ![p] = [o EXCEPT !.verPath = "fresh"]]
  /\ UNCHANGED bg

\* await cache.get(versionKey) and the branch taken on its result
VersionCacheGet(p) ==
  /\ pc[p] = "ver_get"
  /\ LET key == local[p].versionKey
         data == CacheGet(cache, key)
         o == [obs[p] EXCEPT !.verRead = data, !.verAt = clock,
                             !.verFirst = IF key \in DOMAIN firstAt THEN firstAt[key] ELSE Never]
     IN IF ~Truthy(data)
        THEN VersionMiss(p, o)
        ELSE IF IsExpired(MaxAgeFromJson(data.maxAge), clock)
             THEN VersionStale(p, data, o)
             ELSE VersionFresh(p, data, o)
  /\ UNCHANGED <<cache, clock, calls, unhandled, written, custom, config, log, outcome>>

\* the awaited fetchLatestRuntimeData_ of a miss completes
VersionFetched(p) ==
  /\ pc[p] = "ver_fetch"
  /\ \E out \in VersionOutcomes :
       IF out = Failure
       THEN /\ CatchVersionError(p, obs[p])
            /\ UNCHANGED <<cache, firstAt, written, rp>>
       ELSE LET data == RuntimeData(out, clock)
            IN /\ cache' = CacheSet(cache, local[p].versionKey, data)
               /\ written' = Wrote(local[p].versionKey, rp[p].ampUrlPrefix, rp[p].lts, data, FALSE)
               /\ firstAt' = Returned(local[p].versionKey)
               /\ rp' = [rp EXCEPT ![p].ampRuntimeVersion = data.version]
               /\ pc' = [pc EXCEPT ![p] = "styles"]
               /\ local' = [local EXCEPT ![p] = NoLocal]
               /\ obs' = [obs EXCEPT ![p].verFetched = out]
               /\ UNCHANGED <<log, outcome>>
  /\ UNCHANGED <<clock, calls, bg, unhandled, custom, config>>

\* a refresh whose answer is dropped: cache.set is never reached
BackgroundRefreshLost ==
  /\ \E task \in bg, out \in VersionOutcomes :
       /\ bg' = bg \ {task}
       /\ unhandled' = IF out = Failure THEN unhandled \cup {task.call} ELSE unhandled
  /\ UNCHANGED <<cache, written, clock, calls, firstAt, pc, custom, config, rp, local, log, outcome, obs>>

\* a fetchLatestRuntimeData_ started at line 131 completes; nothing handles
\* its rejection
BackgroundRefresh ==
  /\ \E task \in bg, out \in VersionOutcomes :
       /\ bg' = bg \ {task}
       /\ IF out = Failure
          THEN /\ unhandled' = unhandled \cup {task.call}
               /\ UNCHANGED <<cache, written>>
          ELSE /\ cache' = CacheSet(cache, task.key, RuntimeData(out, clock))
               /\ written' = Wrote(task.key, task.ampUrlPrefix, task.lts,
                                   RuntimeData(out, clock), TRUE)
               /\ unhandled' = unhandled
  /\ UNCHANGED <<clock, calls, firstAt, pc, custom, config, rp, local, log, outcome, obs>>

\* ------------------------------------------------------------------------
\* ampRuntimeStyles: lines 66-69, fetchAmpRuntimeStyles_ and
\* downloadAmpRuntimeStyles_
\* ------------------------------------------------------------------------

\* lines 68-69, 73: the value is assigned and the object returned
FinishStyles(p, styles, l, o) ==
  /\ rp' = [rp EXCEPT ![p].ampRuntimeStyles = styles]
  /\ pc' = [pc EXCEPT ![p] = "done"]
  /\ outcome' = [outcome EXCEPT ![p] = "returned"]
  /\ local' = [local EXCEPT ![p] = NoLocal]
  /\ log' = [log EXCEPT ![p] = l]
  /\ obs' = [obs EXCEPT ![p] = o]

RelativePrefixWarning ==
  "AMP runtime styles cannot be fetched from relative ampUrlPrefix"

\* a relative prefix that is warned about and then used as it is
StylesEntryKeepsPrefix(cfg, ampUrlPrefix, ampRuntimeVersion) ==
  IF Truthy(ampUrlPrefix) /\ ~_isAbsoluteUrl(ampUrlPrefix) /\ HasCapabilities(cfg)
  THEN [next |-> "sty_get", warned |-> TRUE, ampUrlPrefix |-> ampUrlPrefix]
  ELSE [next |-> "sty_get", warned |-> FALSE, ampUrlPrefix |-> ampUrlPrefix]

\* lines 80-87 for the arguments as the callee receives them: where the
\* call goes next, and the prefix it goes on with
StylesEntry(cfg, ampUrlPrefix, ampRuntimeVersion) ==
  IF Truthy(ampUrlPrefix) /\ ~_isAbsoluteUrl(ampUrlPrefix)
  THEN IF ~HasCapabilities(cfg)
       THEN [next |-> "throw", warned |-> FALSE, ampUrlPrefix |-> ampUrlPrefix]
       ELSE [next |-> IF Truthy(ampRuntimeVersion) THEN "sty_get" ELSE "sty_version",
             warned |-> TRUE, ampUrlPrefix |-> Str(AMP_CACHE_HOST)]
  ELSE [next |-> "sty_get", warned |-> FALSE, ampUrlPrefix |-> ampUrlPrefix]

\* a call of fetchAmpRuntimeStyles_ up to its first await
EnterStyles(p, cfg, ampUrlPrefix, ampRuntimeVersion, o) ==
  LET e == StylesEntry(cfg, ampUrlPrefix, ampRuntimeVersion)
      l == IF e.warned THEN log[p] \cup {RelativePrefixWarning} ELSE log[p]
  IN IF e.next = "throw"
     THEN /\ CatchStylesError(p, l, o)
          /\ rp' = rp
     ELSE /\ local' = [local EXCEPT ![p] =
                 [NoLocal EXCEPT !.config = cfg,
                                 !.ampUrlPrefix = e.ampUrlPrefix,
                                 !.ampRuntimeVersion = ampRuntimeVersion,
                                 !.runtimeCssUrl =
                                    IF e.next = "sty_get"
                                    THEN RuntimeCssUrl(e.ampUrlPrefix, ampRuntimeVersion)
                                    ELSE ""]]
          /\ log' = [log EXCEPT ![p] = l]
          /\ pc' = [pc EXCEPT ![p] = e.next]
          /\ obs' = [obs EXCEPT ![p] = o]
          /\ UNCHANGED <<rp, outcome>>

\* the style resolver is given the version destructured at line 57, before
\* the version resolution
StylesStageStaleVersion(p) ==
  /\ pc[p] = "styles"
  /\ IF Truthy(custom[p].ampRuntimeStyles)
     THEN FinishStyles(p, custom[p].ampRuntimeStyles, log[p], obs[p])
     ELSE EnterStyles(p, ConfigObject, rp[p].ampUrlPrefix, custom[p].ampRuntimeVersion,
                      [obs[p] EXCEPT !.attempted = @ \cup {"styles"}])
  /\ UNCHANGED <<cache, clock, calls, bg, firstAt, unhandled, written, custom, config>>

StylesStage(p) ==
  /\ pc[p] = "styles"
  /\ IF Truthy(custom[p].ampRuntimeStyles)
     THEN FinishStyles(p, custom[p].ampRuntimeStyles, log[p], obs[p])
     ELSE EnterStyles(p, ConfigObject, rp[p].ampUrlPrefix, rp[p].ampRuntimeVersion,
                      [obs[p] EXCEPT !.attempted = @ \cup {"styles"}])
  /\ UNCHANGED <<cache, clock, calls, bg, firstAt, unhandled, written, custom, config>>

\* line 86: the version source answers the call made for a relative prefix
StylesVersion(p) ==
  /\ pc[p] = "sty_version"
  /\ \E out \in VersionOutcomes :
       IF out = Failure
       THEN /\ CatchStylesError(p, log[p], obs[p])
            /\ rp' = rp
       ELSE /\ local' = [local EXCEPT ![p].ampRuntimeVersion = out,
                                      ![p].runtimeCssUrl = RuntimeCssUrl(local[p].ampUrlPrefix, out)]
            /\ pc' = [pc EXCEPT ![p] = "sty_get"]
            /\ UNCHANGED <<rp, log, outcome, obs>>
  /\ UNCHANGED <<cache, clock, calls, bg, firstAt, unhandled, written, custom, config>>

\* a retry whatever the arguments were
ShouldRetryAlways(ampUrlPrefix, ampRuntimeVersion) == TRUE

\* line 95
ShouldRetry(ampUrlPrefix, ampRuntimeVersion) ==
  Truthy(ampUrlPrefix) \/ Truthy(ampRuntimeVersion)

\* the outcome of the first download of a call is remembered
FirstDl(o, what) == IF o.retries = 0 THEN [o EXCEPT !.firstDl = what] ELSE o

\* lines 93-100 when the download gave nothing; config.fetch has answered,
\* so config is the config object and config.log exists
NoContent(p, o) ==
  LET l == log[p] \cup {"Could not download " \o local[p].runtimeCssUrl}
  IN IF ShouldRetry(local[p].ampUrlPrefix, local[p].ampRuntimeVersion)
     THEN /\ pc' = [pc EXCEPT ![p] = "sty_retry"]
          /\ log' = [log EXCEPT ![p] = l]
          /\ obs' = [obs EXCEPT ![p] = o]
          /\ UNCHANGED <<rp, local, outcome>>
     ELSE FinishStyles(p, Str(""), l, o)

\* line 109 and, on a hit, lines 118, 93 and 102; on a miss the call of
\* config.fetch
StylesCacheGet(p) ==
  /\ pc[p] = "sty_get"
  /\ LET styles == CacheGet(cache, local[p].runtimeCssUrl)
     IN IF Truthy(styles)
        THEN FinishStyles(p, styles, log[p], FirstDl(obs[p], "hit"))
        ELSE IF ~HasCapabilities(local[p].config)
             THEN /\ CatchStylesError(p, log[p], obs[p])
                  /\ rp' = rp
             ELSE /\ pc' = [pc EXCEPT ![p] = "sty_fetch"]
                  /\ obs' = [obs EXCEPT ![p].requested = Append(@, local[p].runtimeCssUrl)]
                  /\ UNCHANGED <<rp, local, log, outcome>>
  /\ UNCHANGED <<cache, clock, calls, bg, firstAt, unhandled, written, custom, config>>

\* cache.set reached before the response is looked at: a non-ok response
\* stores null under the URL
StylesDownloadedStoresFirst(p) ==
  /\ pc[p] = "sty_fetch"
  /\ \E out \in DownloadOutcomes :
       IF out = Failure
       THEN /\ CatchStylesError(p, log[p], FirstDl(obs[p], "threw"))
            /\ UNCHANGED <<cache, rp>>
       ELSE IF ~out.ok
            THEN /\ NoContent(p, FirstDl(obs[p], "notok"))
                 /\ cache' = CacheSet(cache, local[p].runtimeCssUrl, Null)
            ELSE /\ cache' = CacheSet(cache, local[p].runtimeCssUrl, Str(out.text))
                 /\ IF Truthy(Str(out.text))
                    THEN FinishStyles(p, Str(out.text), log[p], FirstDl(obs[p], "ok"))
                    ELSE NoContent(p, FirstDl(obs[p], "empty"))
  /\ UNCHANGED <<clock, calls, bg, firstAt, unhandled, written, custom, config>>

\* lines 111-118: the response of config.fetch and its text
StylesDownloaded(p) ==
  /\ pc[p] = "sty_fetch"
  /\ \E out \in DownloadOutcomes :
       IF out = Failure
       THEN /\ CatchStylesError(p, log[p], FirstDl(obs[p], "threw"))
            /\ UNCHANGED <<cache, rp>>
       ELSE IF ~out.ok
            THEN /\ NoContent(p, FirstDl(obs[p], "notok"))
                 /\ cache' = cache
            ELSE /\ cache' = CacheSet(cache, local[p].runtimeCssUrl, Str(out.text))
                 /\ IF Truthy(Str(out.text))
                    THEN FinishStyles(p, Str(out.text), log[p], FirstDl(obs[p], "ok"))
                    ELSE NoContent(p, FirstDl(obs[p], "empty"))
  /\ UNCHANGED <<clock, calls, bg, firstAt, unhandled, written, custom, config>>

\* line 97: the version source answers, and fetchAmpRuntimeStyles_ is called
\* with two arguments: the host takes the place of config, the version the
\* place of ampUrlPrefix, and ampRuntimeVersion is left undefined
RetryStyles(p, version, o) ==
  EnterStyles(p, Str(AMP_CACHE_HOST), version, Undefined, o)

StylesRetry(p) ==
  /\ pc[p] = "sty_retry"
  /\ \E out \in VersionOutcomes :
       IF out = Failure
       THEN /\ CatchStylesError(p, log[p], obs[p])
            /\ rp' = rp
       ELSE RetryStyles(p, out, [obs[p] EXCEPT !.retries = @ + 1, !.retryVer = out])
  /\ UNCHANGED <<cache, clock, calls, bg, firstAt, unhandled, written, custom, config>>

\* the caller takes the returned object; the call and its history are over
Return(p) ==
  /\ pc[p] = "done"
  /\ pc' = [pc EXCEPT ![p] = "idle"]
  /\ custom' = [custom EXCEPT ![p] = NoCustom]
  /\ config' = [config EXCEPT ![p] = NoConfig]
  /\ rp' = [rp EXCEPT ![p] = NoParams]
  /\ log' = [log EXCEPT ![p] = {}]
  /\ outcome' = [outcome EXCEPT ![p] = "none"]
  /\ obs' = [obs EXCEPT ![p] = NoObs]
  /\ UNCHANGED <<cache, clock, calls, bg, firstAt, unhandled, written, local>>

Next ==
  \/ Tick
  \/ \E p \in Procs : Resolve(p)
  \/ \E p \in Procs : RulesStage(p)
  \/ \E p \in Procs : RulesCacheGet(p)
  \/ \E p \in Procs : RulesFetched(p)
  \/ \E p \in Procs : VersionStage(p)
  \/ \E p \in Procs : VersionCacheGet(p)
  \/ \E p \in Procs : VersionFetched(p)
  \/ BackgroundRefresh
  \/ \E p \in Procs : StylesStage(p)
  \/ \E p \in Procs : StylesVersion(p)
  \/ \E p \in Procs : StylesCacheGet(p)
  \/ \E p \in Procs : StylesDownloaded(p)
  \/ \E p \in Procs : StylesRetry(p)
  \/ \E p \in Procs : Return(p)

Spec == Init /\ [][Next]_vars

\* ------------------------------------------------------------------------
\* One key, refreshed.  The calls bring the validator rules in config and
\* the styles in customParameters and leave the prefix and the lts flag
\* unset, so that a call is one fetchAmpRuntimeVersion_ call for the one key
\* "undefined-false": the first call misses, the calls made once the record
\* has expired start background refreshes, and later calls read what the
\* refreshes stored.
\* ------------------------------------------------------------------------
MaxRefreshCalls == 4

ResolveCached(p) ==
  /\ calls < MaxRefreshCalls
  /\ Call(p, Undefined, RuleSet(Raw("config")), Undefined, Undefined, Str("custom-css"),
          FALSE, FALSE, FALSE, FALSE, FALSE, FALSE)

RefreshNext ==
  \/ Tick
  \/ \E p \in Procs : ResolveCached(p)
  \/ \E p \in Procs : RulesStage(p)
  \/ \E p \in Procs : VersionStage(p)
  \/ \E p \in Procs : VersionCacheGet(p)
  \/ \E p \in Procs : VersionFetched(p)
  \/ BackgroundRefresh
  \/ \E p \in Procs : StylesStage(p)
  \/ \E p \in Procs : Return(p)

\* a refresh that was started settles: the version source settles the
\* promise of currentVersion() and the event loop runs its continuation
RefreshSpec == Init /\ [][RefreshNext]_vars /\ WF_vars(BackgroundRefresh)

\* ------------------------------------------------------------------------
\* Overlapping calls.  Two callers share the cache, and a call may start
\* while the other caller's call and background refreshes are in flight.
\* Their calls bring the validator rules in config and the styles in
\* customParameters, so that a call is one fetchAmpRuntimeVersion_ call; the
\* (ampUrlPrefix, lts) pairs are the unset prefix with either lts flag and
\* the prefix that is the string "undefined".
\* ------------------------------------------------------------------------
Callers == {"c1", "c2"}

MaxOverlapCalls == 2

VersionPairs ==
  {<<Undefined, FALSE>>, <<Undefined, TRUE>>, <<Str("undefined"), FALSE>>}

OverlapInit ==
  /\ cache = <<>>
  /\ clock = 0
  /\ calls = 0
  /\ bg = {}
  /\ firstAt = <<>>
  /\ unhandled = {}
  /\ written = <<>>
  /\ pc = [p \in Callers |-> "idle"]
  /\ custom = [p \in Callers |-> NoCustom]
  /\ config = [p \in Callers |-> NoConfig]
  /\ rp = [p \in Callers |-> NoParams]
  /\ local = [p \in Callers |-> NoLocal]
  /\ log = [p \in Callers |-> {}]
  /\ outcome = [p \in Callers |-> "none"]
  /\ obs = [p \in Callers |-> NoObs]

ResolveVersion(p) ==
  /\ calls < MaxOverlapCalls
  /\ \E pair \in VersionPairs :
       Call(p, Undefined, RuleSet(Raw("config")), pair[1], Undefined, Str("custom-css"),
            pair[2], FALSE, FALSE, FALSE, FALSE, FALSE)

OverlapNext ==
  \/ Tick
  \/ \E p \in Callers : ResolveVersion(p)
  \/ \E p \in Callers : RulesStage(p)
  \/ \E p \in Callers : VersionStage(p)
  \/ \E p \in Callers : VersionCacheGet(p)
  \/ \E p \in Callers : VersionFetched(p)
  \/ BackgroundRefresh
  \/ \E p \in Callers : StylesStage(p)
  \/ \E p \in Callers : Return(p)

OverlapSpec == OverlapInit /\ [][OverlapNext]_vars

\* ------------------------------------------------------------------------
\* Properties
\* ------------------------------------------------------------------------
RulesErrorMessage == "Could not fetch validator rules"
VersionErrorMessage == "Could not fetch latest AMP runtime version"
StylesErrorMessage == "Could not fetch AMP runtime CSS"

\* the call of p supplied this field itself
Supplied(p, field) == Truthy(custom[p][field])

\* the record a call of resolveVersion read was past its 600 seconds
StaleRecord(data, now) == data # Undefined /\ now > data.maxAge.timestamp + 600

StaleRead(p) == StaleRecord(obs[p].verRead, obs[p].verAt)

\* the styles resolver was entered with neither prefix nor version
DefaultStylesCall(p) ==
  /\ "styles" \in obs[p].attempted
  /\ ~Truthy(rp[p].ampUrlPrefix)
  /\ ~Truthy(rp[p].ampRuntimeVersion)

\* the styles resolver was entered with a prefix or a version
ExplicitStylesCall(p) ==
  /\ "styles" \in obs[p].attempted
  /\ Truthy(rp[p].ampUrlPrefix) \/ Truthy(rp[p].ampRuntimeVersion)

\* C1: resolve never fails outright: whatever the rule provider, the version
\* source and the download do and whatever the cache holds, a call that has
\* ended has returned its RuntimeParameters, and no error reached the caller.
C1_ResolveNeverFails ==
  \A p \in Procs :
    /\ outcome[p] # "threw"
    /\ pc[p] = "done" => outcome[p] = "returned"

\* all three resolutions failed in one call, and the call returned
C1_Witness ==
  \E p \in Procs :
    /\ pc[p] = "done"
    /\ obs[p].failed = {"rules", "version", "styles"}
    /\ outcome[p] = "returned"

\* C2: a failed resolution is logged through config.log.error, leaves its
\* field unset, and the resolutions after it are still attempted (unless the
\* caller supplied their value).
C2_FailureIsolation ==
  \A p \in Procs :
    pc[p] = "done" =>
      /\ "rules" \in obs[p].failed =>
           /\ RulesErrorMessage \in log[p]
           /\ rp[p].validatorRules = Undefined
           /\ Supplied(p, "ampRuntimeVersion") \/ "version" \in obs[p].attempted
           /\ Supplied(p, "ampRuntimeStyles") \/ "styles" \in obs[p].attempted
      /\ "version" \in obs[p].failed =>
           /\ VersionErrorMessage \in log[p]
           /\ rp[p].ampRuntimeVersion = Undefined
           /\ Supplied(p, "ampRuntimeStyles") \/ "styles" \in obs[p].attempted
      /\ "styles" \in obs[p].failed =>
           /\ StylesErrorMessage \in log[p]
           /\ rp[p].ampRuntimeStyles = Undefined

\* C3: a value supplied in customParameters for validatorRules,
\* ampRuntimeVersion or ampRuntimeStyles is the value of that field in the
\* returned object.
C3_Precedence ==
  \A p \in Procs :
    pc[p] = "done" =>
      \A field \in {"validatorRules", "ampRuntimeVersion", "ampRuntimeStyles"} :
        Supplied(p, field) => rp[p][field] = custom[p][field]

\* C4: when the cache holds no record under the version key, resolveVersion
\* makes one call of the version source and awaits it; when the source has
\* answered, the record {version, maxAge = now + 600} is in the cache under
\* that key and the answer is the version returned, with that one call made.
C4_VersionMiss ==
  [][\A p \in Procs :
       /\ ( /\ pc[p] = "ver_get"
            /\ pc'[p] # "ver_get"
            /\ CacheGet(cache, local[p].versionKey) = Undefined )
          => /\ pc'[p] = "ver_fetch"
             /\ obs'[p].verCalls = 1
             /\ bg' = bg
             /\ cache' = cache
       /\ ( /\ pc[p] = "ver_fetch"
            /\ pc'[p] # "ver_fetch"
            /\ "version" \notin obs'[p].failed )
          => /\ pc'[p] = "styles"
             /\ obs'[p].verCalls = 1
             /\ bg' = bg
             /\ obs'[p].verFetched \in Versions
             /\ rp'[p].ampRuntimeVersion = obs'[p].verFetched
             /\ LET data == CacheGet(cache', local[p].versionKey)
                IN /\ data # Undefined
                   /\ data.version = obs'[p].verFetched
                   /\ data.maxAge.timestamp + data.maxAge.value = clock + 600
    ]_vars

\* a miss at a time other than 0 has returned the fetched version
C4_Witness ==
  \E p \in Procs :
    /\ pc[p] = "styles"
    /\ obs[p].verPath = "miss"
    /\ obs[p].verCalls = 1
    /\ obs[p].verFetched = rp[p].ampRuntimeVersion
    /\ obs[p].verFetched \in Versions
    /\ clock > 0
    /\ CacheGet(cache, VersionKey(rp[p].ampUrlPrefix, rp[p].lts)) = RuntimeData(obs[p].verFetched, clock)

\* C5: once a first resolveVersion call for a key has returned, a call for
\* that key that compares the clock to the record within 600 seconds of that
\* return makes no call of the version source and returns the cached version.
C5_FreshHit ==
  \A p \in Procs :
    ( /\ obs[p].verPath # "none"
      /\ obs[p].verFirst # Never
      /\ obs[p].verAt <= obs[p].verFirst + 600 )
    => /\ obs[p].verPath = "fresh"
       /\ obs[p].verCalls = 0
       /\ rp[p].ampRuntimeVersion = obs[p].verRead.version

\* a call exactly 600 seconds after the first return was served from the cache
C5_Witness ==
  \E p \in Procs :
    /\ obs[p].verPath = "fresh"
    /\ obs[p].verFirst # Never
    /\ obs[p].verAt = obs[p].verFirst + 600
    /\ obs[p].verCalls = 0
    /\ rp[p].ampRuntimeVersion = obs[p].verRead.version

\* C6: a resolveVersion call that finds an expired record returns the cached
\* version in the step in which it starts the refresh, so without its
\* completion, and it starts exactly one refresh, for its own key.
C6_StaleHit ==
  [][\A p \in Procs :
       ( /\ pc[p] = "ver_get"
         /\ pc'[p] # "ver_get"
         /\ StaleRecord(CacheGet(cache, local[p].versionKey), clock) )
       => /\ pc'[p] = "styles"
          /\ rp'[p].ampRuntimeVersion = CacheGet(cache, local[p].versionKey).version
          /\ cache' = cache
          /\ obs'[p].verCalls = 1
          /\ bg \subseteq bg'
          /\ Cardinality(bg' \ bg) = 1
          /\ \A task \in bg' \ bg : task.key = local[p].versionKey
    ]_vars

\* a stale hit has returned while its refresh is still in flight
C6_Witness ==
  \E p \in Procs :
    /\ pc[p] = "styles"
    /\ StaleRead(p)
    /\ obs[p].verPath = "stale"
    /\ rp[p].ampRuntimeVersion = obs[p].verRead.version
    /\ \E task \in bg : task.call = obs[p].call

\* C7: a call that read a stale record returns the stale version as its
\* ampRuntimeVersion, with no version failure logged, whatever becomes of
\* the refresh it started.
C7_RefreshFailureHidden ==
  \A p \in Procs :
    (pc[p] = "done" /\ StaleRead(p)) =>
      /\ outcome[p] = "returned"
      /\ rp[p].ampRuntimeVersion = obs[p].verRead.version
      /\ "version" \notin obs[p].failed
      /\ VersionErrorMessage \notin log[p]

\* the refresh of a stale hit failed and the call returned the stale version
C7_Witness ==
  \E p \in Procs :
    /\ pc[p] = "done"
    /\ StaleRead(p)
    /\ obs[p].call \in unhandled
    /\ outcome[p] = "returned"
    /\ rp[p].ampRuntimeVersion = obs[p].verRead.version

\* C8: when the first download of a resolveStyles call made with a prefix or
\* a version yields no content and the version source answers, the call
\* retries once against the canonical host and that version, and returns the
\* result of the retry: the CSS downloaded there, or the empty string.
C8_RetryOnCanonicalHost ==
  \A p \in Procs :
    ( /\ pc[p] = "done"
      /\ ExplicitStylesCall(p)
      /\ obs[p].firstDl \in {"notok", "empty"}
      /\ obs[p].retryVer # Undefined )
    => /\ obs[p].retries = 1
       /\ "styles" \notin obs[p].failed
       /\ rp[p].ampRuntimeStyles # Undefined
       /\ Len(obs[p].requested) = 2 =>
            obs[p].requested[2] = RuntimeCssUrl(Str(AMP_CACHE_HOST), obs[p].retryVer)

\* C9: one resolveStyles call makes at most two download attempts and at most
\* one retry, and a call that retried ends with CSS or, when the retry also
\* fails to download, with the empty string.
C9_AtMostOneRetry ==
  \A p \in Procs :
    (pc[p] = "done" /\ "styles" \in obs[p].attempted) =>
      /\ Len(obs[p].requested) <= 2
      /\ obs[p].retries <= 1
      /\ (obs[p].retries = 1) =>
           /\ outcome[p] = "returned"
           /\ Truthy(rp[p].ampRuntimeStyles) \/ rp[p].ampRuntimeStyles = Str("")

\* C10: a resolveStyles call made with neither prefix nor version whose
\* download returns a non-ok response returns the empty string, after that
\* one download, without a retry and without raising.
C10_DefaultPathEmptyString ==
  \A p \in Procs :
    ( /\ pc[p] = "done"
      /\ DefaultStylesCall(p)
      /\ obs[p].firstDl = "notok" )
    => /\ rp[p].ampRuntimeStyles = Str("")
       /\ obs[p].retries = 0
       /\ Len(obs[p].requested) = 1
       /\ "styles" \notin obs[p].failed
       /\ StylesErrorMessage \notin log[p]
       /\ outcome[p] = "returned"

\* the default path met a non-ok response and the call returned ""
C10_Witness ==
  \E p \in Procs :
    /\ pc[p] = "done"
    /\ DefaultStylesCall(p)
    /\ obs[p].firstDl = "notok"
    /\ rp[p].ampRuntimeStyles = Str("")
    /\ outcome[p] = "returned"

\* a resolveStyles call whose ampUrlPrefix argument is set but not absolute
RelativeStylesCall(p) ==
  /\ "styles" \in obs[p].attempted
  /\ Truthy(rp[p].ampUrlPrefix)
  /\ ~_isAbsoluteUrl(rp[p].ampUrlPrefix)

\* what the steps after lines 80-90 read of the frame: the config, the URL
\* asked of the cache and of the network, and the retry decision of line 95
StylesFrame(cfg, ampUrlPrefix, ampRuntimeVersion) ==
  [config |-> cfg,
   runtimeCssUrl |-> RuntimeCssUrl(ampUrlPrefix, ampRuntimeVersion),
   retry |-> ShouldRetry(ampUrlPrefix, ampRuntimeVersion)]

\* the frame of the call in progress
CurrentStylesFrame(p) ==
  [config |-> local[p].config,
   runtimeCssUrl |-> local[p].runtimeCssUrl,
   retry |-> ShouldRetry(local[p].ampUrlPrefix, local[p].ampRuntimeVersion)]

\* the frame of the same call made with ampUrlPrefix unset
UnsetPrefixFrame(ampRuntimeVersion) ==
  LET e == StylesEntry(ConfigObject, Undefined, ampRuntimeVersion)
  IN StylesFrame(ConfigObject, e.ampUrlPrefix, ampRuntimeVersion)

\* C11 as stated: for every version argument a call with a relative prefix
\* logs the warning, makes no version-source call of its own, and goes on
\* with the URL and the retry decision of the call with the prefix unset.
C11_RelativeAsUnset ==
  \A p \in Procs :
    RelativeStylesCall(p) =>
      /\ RelativePrefixWarning \in log[p]
      /\ pc[p] # "sty_version"
      /\ pc[p] \in {"sty_get", "sty_fetch"} =>
           CurrentStylesFrame(p) = UnsetPrefixFrame(rp[p].ampRuntimeVersion)
      /\ Len(obs[p].requested) >= 1 =>
           obs[p].requested[1] = UnsetPrefixFrame(rp[p].ampRuntimeVersion).runtimeCssUrl

\* C11 (amended): a call with a relative prefix logs the warning; given a
\* version argument it goes on exactly as the call with the prefix unset
\* (same URL, same retry decision, same config, no version-source call before
\* the download); given no version argument it first asks the version source
\* and goes on with the canonical-host URL of the version it was answered.
C11_RelativeAsUnsetGivenVersion ==
  \A p \in Procs :
    RelativeStylesCall(p) =>
      /\ RelativePrefixWarning \in log[p]
      /\ Truthy(rp[p].ampRuntimeVersion) =>
           /\ pc[p] # "sty_version"
           /\ pc[p] \in {"sty_get", "sty_fetch"} =>
                CurrentStylesFrame(p) = UnsetPrefixFrame(rp[p].ampRuntimeVersion)
           /\ Len(obs[p].requested) >= 1 =>
                obs[p].requested[1] =
                  UnsetPrefixFrame(rp[p].ampRuntimeVersion).runtimeCssUrl
      /\ ~Truthy(rp[p].ampRuntimeVersion) =>
           /\ pc[p] \in {"sty_get", "sty_fetch"} =>
                /\ local[p].ampRuntimeVersion \in Versions
                /\ CurrentStylesFrame(p) =
                     StylesFrame(ConfigObject, Str(AMP_CACHE_HOST),
                                 local[p].ampRuntimeVersion)
           /\ Len(obs[p].requested) >= 1 =>
                \E v \in Versions :
                  obs[p].requested[1] = RuntimeCssUrl(Str(AMP_CACHE_HOST), v)

\* a call with a relative prefix and a version argument has asked for the
\* URL of the unset-prefix call and is waiting for the response
C11_Witness ==
  \E p \in Procs :
    /\ RelativeStylesCall(p)
    /\ Truthy(rp[p].ampRuntimeVersion)
    /\ pc[p] = "sty_fetch"
    /\ RelativePrefixWarning \in log[p]
    /\ obs[p].requested = <<RuntimeCssUrl(Undefined, rp[p].ampRuntimeVersion)>>

\* downloadAmpRuntimeStyles_ finds text stored under the URL it is asked for
StoredStylesRead(p) ==
  /\ pc[p] = "sty_get"
  /\ local[p].runtimeCssUrl \in DOMAIN cache

\* C12: once CSS text is stored under a URL, a later download for that URL
\* returns exactly the stored text, makes no fetch and leaves the entry as it
\* is, for every text value.
C12_StyleCacheRoundTrip ==
  [][\A p \in Procs :
       (StoredStylesRead(p) /\ pc'[p] # pc[p]) =>
         /\ pc'[p] = "done"
         /\ rp'[p].ampRuntimeStyles = cache[local[p].runtimeCssUrl]
         /\ obs'[p].requested = obs[p].requested
         /\ cache' = cache]_vars

\* the raw rules are stored
RulesStored == KEY_VALIDATOR_RULES \in DOMAIN cache

\* the rule provider answered the call of p with a RuleSet
RulesAnswered(p) ==
  /\ pc[p] = "rules_fetch"
  /\ pc'[p] = "version"
  /\ obs'[p].failed = obs[p].failed

\* C13: on a miss the provider is called with no arguments, the raw form of
\* its RuleSet is stored under "validator-rules" and the RuleSet is returned;
\* once the raw form is stored every later call reads it, calls the provider
\* with it (never with no arguments), returns the RuleSet rebuilt from it, and
\* the stored entry is never rewritten.
C13_RuleCaching ==
  [][\A p \in Procs :
       /\ (pc[p] = "rules_get" /\ pc'[p] # pc[p]) =>
            /\ pc'[p] = "rules_fetch"
            /\ local'[p].rawRules =
                 IF RulesStored THEN cache[KEY_VALIDATOR_RULES] ELSE Undefined
            /\ cache' = cache
       /\ (RulesAnswered(p) /\ local[p].rawRules = Undefined) =>
            /\ ~RulesStored
            /\ rp'[p].validatorRules \in {RuleSet(r) : r \in FetchedRaws}
            /\ cache' = CacheSet(cache, KEY_VALIDATOR_RULES, rp'[p].validatorRules.raw)
       /\ (RulesAnswered(p) /\ local[p].rawRules # Undefined) =>
            /\ RulesStored
            /\ local[p].rawRules = cache[KEY_VALIDATOR_RULES]
            /\ rp'[p].validatorRules = RuleSet(local[p].rawRules)
       /\ RulesStored =>
            /\ KEY_VALIDATOR_RULES \in DOMAIN cache'
            /\ cache'[KEY_VALIDATOR_RULES] = cache[KEY_VALIDATOR_RULES]
            /\ pc'[p] = "rules_fetch" => local'[p].rawRules = cache[KEY_VALIDATOR_RULES]]_vars

\* the raw rules are stored and the provider has been called with them
C13_Witness ==
  \E p \in Procs :
    /\ pc[p] = "rules_fetch"
    /\ RulesStored
    /\ local[p].rawRules = cache[KEY_VALIDATOR_RULES]
    /\ local[p].rawRules \in FetchedRaws

\* C14 as stated: whatever the cache holds, no resolveRules call throws, also
\* when the rule provider fails: every call that has ended returned a RuleSet.
C14_RulesNeverThrow ==
  \A p \in Procs :
    /\ "rules" \notin obs[p].failed
    /\ ("rules" \in obs[p].attempted /\ pc[p] \notin {"rules_get", "rules_fetch"}) =>
         rp[p].validatorRules \in {RuleSet(r) : r \in FetchedRaws}

\* C14 (amended): whatever the cache holds, resolveRules returns the RuleSet
\* the rule provider answers; when the provider fails resolveRules throws that
\* failure and writes nothing: its caller logs "Could not fetch validator
\* rules", leaves the field as it was and goes on.
C14_RulesOrRejection ==
  [][\A p \in Procs :
       (pc[p] = "rules_fetch" /\ pc'[p] # pc[p]) =>
         /\ pc'[p] = "version"
         /\ \/ /\ rp'[p].validatorRules \in RuleOutcomes(local[p].rawRules) \ {Failure}
               /\ obs'[p].failed = obs[p].failed
               /\ log'[p] = log[p]
            \/ /\ "rules" \in obs'[p].failed
               /\ RulesErrorMessage \in log'[p]
               /\ rp'[p] = rp[p]
               /\ cache' = cache]_vars

\* the provider failed with the raw rules stored, and the call went on
C14_Witness ==
  \E p \in Procs :
    /\ pc[p] = "version"
    /\ RulesStored
    /\ "rules" \in obs[p].failed
    /\ RulesErrorMessage \in log[p]

\* the error of line 94 was logged for a URL the call requested
DownloadErrorLogged(p) ==
  \E i \in 1..Len(obs[p].requested) :
    ("Could not download " \o obs[p].requested[i]) \in log[p]

\* C15: an ok response with an empty body is a result, not "no content": the
\* call returns the empty text, logs no error and makes no retry; and an empty
\* text held by the cache is returned on the next call without a new fetch.
C15_EmptyTextIsContent ==
  \A p \in Procs :
    /\ obs[p].firstDl = "empty" =>
         /\ pc[p] = "done"
         /\ rp[p].ampRuntimeStyles = Str("")
         /\ outcome[p] = "returned"
         /\ ~DownloadErrorLogged(p)
         /\ obs[p].retries = 0
         /\ "styles" \notin obs[p].failed
    /\ pc[p] = "sty_fetch" => local[p].runtimeCssUrl \notin DOMAIN cache

\* C16: the failure of a background refresh is caught where the refresh was
\* started: it never becomes an unhandled rejection.
C16_RefreshFailureCaught ==
  unhandled = {}

\* the records background refreshes have stored under a key
RefreshedRecords(key) ==
  IF key \in DOMAIN written THEN written[key].refreshed ELSE {}

\* the record is within its window at the present time
InWindow(data) == clock <= data.maxAge.timestamp + AMP_RUNTIME_MAX_AGE

\* the background refresh of call c is in flight
Refreshing(c) == \E task \in bg : task.call = c

\* a background refresh settles with a version: the record stored under its
\* key holds a version of the source and the time of the write, with the
\* max-age of 600 seconds
RefreshStores ==
  \A task \in bg :
    (task \notin bg' /\ unhandled' = unhandled) =>
      /\ task.key \in DOMAIN cache'
      /\ cache'[task.key].version \in Versions
      /\ cache'[task.key].maxAge = [timestamp |-> clock, value |-> AMP_RUNTIME_MAX_AGE]
      /\ cache'[task.key] \in RefreshedRecords(task.key)'

\* every refresh that was started settles, and unless it failed the record
\* under its key is then one a refresh stored
RefreshSettles ==
  \A c \in 1..MaxRefreshCalls :
    Refreshing(c) ~>
      ( \/ c \in unhandled
        \/ /\ ~Refreshing(c)
           /\ \E key \in DOMAIN cache : cache[key] \in RefreshedRecords(key) )

OwnRecord(p, key) ==
  /\ key \in DOMAIN written
  /\ written[key].ampUrlPrefix = rp[p].ampUrlPrefix
  /\ written[key].lts = rp[p].lts

\* C18: under every interleaving of overlapping calls and background
\* refreshes, the record under a version key holds a version the source
\* returned for the ampUrlPrefix and lts the key is made of and a maxAge
\* stamp; a call for one (ampUrlPrefix, lts) pair reads and overwrites only a
\* record stored for its own pair; and a write to a key replaces the record
\* (the last write wins) and touches no other key.
C18_CachePartition ==
  [][/\ \A key \in DOMAIN cache :
          /\ key \in DOMAIN written
          /\ key = VersionKey(written[key].ampUrlPrefix, written[key].lts)
          /\ cache[key].version \in Versions
          /\ cache[key].maxAge.value = AMP_RUNTIME_MAX_AGE
          /\ cache[key].maxAge.timestamp <= clock
     /\ \A p \in Callers :
          /\ ( /\ pc[p] = "ver_get"
               /\ pc'[p] # pc[p]
               /\ local[p].versionKey \in DOMAIN cache ) =>
                 OwnRecord(p, local[p].versionKey)
          /\ (pc[p] = "ver_fetch" /\ pc'[p] # pc[p] /\ cache' # cache) =>
               /\ local[p].versionKey \in DOMAIN cache => OwnRecord(p, local[p].versionKey)
               /\ \A key \in DOMAIN cache \ {local[p].versionKey} :
                    key \in DOMAIN cache' /\ cache'[key] = cache[key]
               /\ cache'[local[p].versionKey].maxAge.timestamp = clock
     /\ \A task \in bg :
          (task \notin bg' /\ cache' # cache) =>
            /\ written[task.key].ampUrlPrefix = task.ampUrlPrefix
            /\ written[task.key].lts = task.lts
            /\ \A key \in DOMAIN cache \ {task.key} :
                 key \in DOMAIN cache' /\ cache'[key] = cache[key]
            /\ cache'[task.key].maxAge.timestamp = clock]_vars

\* the styles resolution of call p is under way
InStyles(p) == pc[p] \in {"sty_version", "sty_get", "sty_fetch", "sty_retry"}

\* the version resolution of call p is over: the version was supplied, or
\* fetchAmpRuntimeVersion_ has returned a version or has thrown
VersionFinished(p) ==
  \/ /\ Truthy(custom[p].ampRuntimeVersion)
     /\ rp[p].ampRuntimeVersion = custom[p].ampRuntimeVersion
  \/ /\ "version" \in obs[p].attempted
     /\ "version" \in obs[p].failed
     /\ rp[p].ampRuntimeVersion = Undefined
  \/ /\ "version" \in obs[p].attempted
     /\ "version" \notin obs[p].failed
     /\ obs[p].verPath \in {"miss", "stale", "fresh"}
     /\ rp[p].ampRuntimeVersion \in Versions

\* C19: the styles resolution starts only after the version resolution is
\* over, the style resolver receives as ampRuntimeVersion exactly the value
\* of runtimeParameters.ampRuntimeVersion at that time (supplied, resolved,
\* or undefined after a failure), and that is the value resolve returns: the
\* styles resolution does not change it.
C19_VersionBeforeStyles ==
  [][\A p \in Procs :
       /\ ("styles" \in obs'[p].attempted /\ "styles" \notin obs[p].attempted) =>
            /\ pc[p] = "styles"
            /\ VersionFinished(p)
            /\ InStyles(p)'
            /\ local'[p].ampRuntimeVersion = rp[p].ampRuntimeVersion
            /\ local'[p].config = ConfigObject
       /\ (pc[p] = "styles" \/ InStyles(p)) =>
            rp'[p].ampRuntimeVersion = rp[p].ampRuntimeVersion
       /\ InStyles(p) => VersionFinished(p)]_vars

\* the style resolver has received the version that the version resolver
\* fetched for this call
C19_Witness ==
  \E p \in Procs :
    /\ pc[p] = "sty_get"
    /\ obs[p].verPath = "miss"
    /\ "version" \notin obs[p].failed
    /\ rp[p].ampRuntimeVersion = obs[p].verFetched
    /\ local[p].ampRuntimeVersion = obs[p].verFetched
    /\ custom[p].ampRuntimeVersion = Undefined

\* C20: a failed fetch leaves the cache as it is: a version-source failure
\* on a miss or in a background refresh (the stale record stays, with its
\* version and maxAge), a non-ok or failed style download, a rule-provider
\* failure; and no step removes an entry of the cache.
C20_FailedFetchWritesNothing ==
  [][/\ \A p \in Procs :
          /\ (pc[p] = "ver_fetch" /\ "version" \in obs'[p].failed) => cache' = cache
          /\ (pc[p] = "rules_fetch" /\ "rules" \in obs'[p].failed) => cache' = cache
          /\ ( /\ pc[p] = "sty_fetch"
               /\ pc'[p] # pc[p]
               /\ obs'[p].firstDl \in {"notok", "threw"} ) => cache' = cache
          /\ (pc[p] \in {"sty_version", "sty_retry"} /\ "styles" \in obs'[p].failed) =>
               cache' = cache
     /\ unhandled' # unhandled => cache' = cache
     /\ \A key \in DOMAIN cache : key \in DOMAIN cache']_vars

\* a style download was answered non-ok and nothing is stored under its URL,
\* while the version record written before it is still in place
C20_Witness ==
  \E p \in Procs :
    /\ obs[p].firstDl = "notok"
    /\ Len(obs[p].requested) = 1
    /\ obs[p].requested[1] \notin DOMAIN cache
    /\ obs[p].verPath = "miss"
    /\ VersionKey(rp[p].ampUrlPrefix, rp[p].lts) \in DOMAIN cache

====
